---------------------------- MODULE Spec2Model ----------------------------
(***************************************************************************)
(* Model of influxdb/client.py: the InfluxDBClient object, its request     *)
(* executor, the write path with its batching loop, the query path and     *)
(* the administrative methods.                                             *)
(*                                                                         *)
(* A client object is its attribute dictionary: a function whose domain    *)
(* is exactly the set of attribute names that have been assigned.  Reading *)
(* an attribute outside that domain raises AttributeError, reading a name  *)
(* that is neither local, module-global nor builtin raises NameError.      *)
(* Every method is an operator from (object, arguments, server replies) to *)
(* a call result: the exception that left the call (if any), the returned  *)
(* value, the network messages the call sent, and the object afterwards.   *)
(***************************************************************************)
EXTENDS Integers, Sequences, FiniteSets, TLC

(***************************************************************************)
(* Bounds on the inputs.                                                   *)
(***************************************************************************)
MaxRows == 3        \* rows per dataset: 0..MaxRows
MaxBatch == 2       \* batch sizes: 0..MaxBatch (and None)
MaxFail == 2        \* the server rejects the k-th request, k in 0..MaxFail

VARIABLES
    ctor,   \* the arguments the constructor was called with
    self,   \* the client object: attribute name -> value
    net,    \* every message the client put on the network, in order
    last    \* the most recent method call: name, arguments, replies, result

vars == <<ctor, self, net, last>>

(***************************************************************************)
(* Python values.                                                          *)
(***************************************************************************)
None == <<>>                       \* None, also "no value returned"
Some(v) == <<v>>
Truthy(v) == v # None /\ v[1] # 0  \* truth value of an optional integer

\* a str as the sequence of its characters; `a in b` on two str
str_in(a, b) ==
    \E i \in 0..(Len(b) - Len(a)) : SubSeq(b, i + 1, i + Len(a)) = a

\* dict.update: keys of d2 replace those of d1
dict_update(d1, d2) ==
    [k \in (DOMAIN d1) \cup (DOMAIN d2) |->
        IF k \in DOMAIN d2 THEN d2[k] ELSE d1[k]]

\* seq[i:j] with 0-based i, clipped to the sequence as Python slices are
slice(seq, i, j) ==
    SubSeq(seq, i + 1, IF j < Len(seq) THEN j ELSE Len(seq))

\* xrange(0, stop, step) for step > 0
xrange(stop, step) ==
    [k \in 1..((stop + step - 1) \div step) |-> (k - 1) * step]

\* a Python object passed as a request body, with its run-time type
Box(t, v) == [type |-> t, value |-> v]
isinstance_str(b) == b.type = "str"

\* json.dumps: the JSON text (a str) of a value; json.loads: its inverse
json_dumps(v) == Box("str", [json |-> v])
json_loads(t) == t.value.json
\* str.encode('utf-8'): the bytes of a text
encode_utf8(t) == Box("bytes", t.value)

(***************************************************************************)
(* Exceptions and call results.                                            *)
(***************************************************************************)
NoExc == [type |-> "None", message |-> None, code |-> 0]
AttributeError(a) == [type |-> "AttributeError", message |-> Some(a), code |-> 0]
NameError(n) == [type |-> "NameError", message |-> Some(n), code |-> 0]
AssertionError == [type |-> "AssertionError", message |-> None, code |-> 0]
InfluxDBClientError(message, code) ==
    [type |-> "InfluxDBClientError", message |-> Some(message), code |-> code]

Raise(obj, e, sent) == [exc |-> e, ret |-> None, sent |-> sent, self |-> obj]
Return(obj, v, sent) == [exc |-> NoExc, ret |-> v, sent |-> sent, self |-> obj]

hasattr(obj, a) == a \in DOMAIN obj
setattr(obj, a, v) ==
    [k \in (DOMAIN obj) \cup {a} |-> IF k = a THEN v ELSE obj[k]]

\* names bound at module level by the import and class statements
ModuleGlobals == {"json", "socket", "requests", "session",
                  "InfluxDBClientError", "InfluxDBClient"}
\* the builtins the module uses (it is Python 2 code: xrange)
Builtins == {"len", "isinstance", "str", "xrange"}
\* name resolution: local, then module-global, then builtin
NameDefined(locals, n) == n \in locals \cup ModuleGlobals \cup Builtins


(***************************************************************************)
(* InfluxDBClient.__init__: the attribute dictionary after construction.   *)
(***************************************************************************)
__init__(a) ==
    LET scheme == IF a.ssl = TRUE THEN "https" ELSE "http"
        base == [host |-> a.host, port |-> a.port, username |-> a.username,
                 password |-> a.password, database |-> a.database,
                 timeout |-> a.timeout, verify_ssl |-> a.verify_ssl,
                 use_udp |-> a.use_udp, udp_port |-> a.udp_port,
                 scheme |-> scheme,
                 _baseurl |-> <<scheme, a.host, a.port>>,
                 _headers |-> [Content_type |-> "application/json",
                               Accept |-> "text/plain"]]
    IN  IF a.use_udp THEN setattr(base, "udp_socket", "SOCK_DGRAM") ELSE base

(***************************************************************************)
(* InfluxDBClient.request: resps is what the server would answer to the    *)
(* requests it receives, in order.                                         *)
(***************************************************************************)
request(obj, url, method, params, data, status_code, resps) ==
    LET full_url == <<obj["_baseurl"], url>>
        given == IF params = None THEN <<>> ELSE params[1]
    IN  IF ~hasattr(obj, "_username")
        THEN Raise(obj, AttributeError("_username"), <<>>)
        ELSE IF ~hasattr(obj, "_password")
        THEN Raise(obj, AttributeError("_password"), <<>>)
        ELSE
        LET args == dict_update([u |-> obj["_username"], p |-> obj["_password"]],
                                given)
            body == IF data # None /\ ~isinstance_str(data[1])
                    THEN Some(json_dumps(data[1].value)) ELSE data
        IN  IF ~hasattr(obj, "_verify_ssl")
            THEN Raise(obj, AttributeError("_verify_ssl"), <<>>)
            ELSE IF ~hasattr(obj, "_timeout")
            THEN Raise(obj, AttributeError("_timeout"), <<>>)
            ELSE
            LET msg == [kind |-> "HTTP", method |-> method, url |-> full_url,
                        params |-> args, data |-> body,
                        headers |-> obj["_headers"],
                        verify |-> obj["_verify_ssl"],
                        timeout |-> obj["_timeout"]]
                response == Head(resps)
            IN  IF response.status_code # status_code
                THEN Raise(obj, InfluxDBClientError(response.content,
                                                    response.status_code),
                           <<msg>>)
                ELSE Return(obj, Some(response), <<msg>>)

(***************************************************************************)
(* InfluxDBClient.send_packet                                              *)
(***************************************************************************)
send_packet(obj, packet) ==
    LET data == json_dumps(packet)
        byte == encode_utf8(data)
    IN  IF ~hasattr(obj, "udp_socket")
        THEN Raise(obj, AttributeError("udp_socket"), <<>>)
        ELSE IF ~hasattr(obj, "_host")
        THEN Raise(obj, AttributeError("_host"), <<>>)
        ELSE Return(obj, None,
                    << [kind |-> "UDP", data |-> byte,
                        addr |-> <<obj["_host"], obj.udp_port>>] >>)

\* the replies left after a call that sent the messages in sent
HttpCount(sent) == Cardinality({i \in DOMAIN sent : sent[i].kind = "HTTP"})
Rest(resps, sent) == SubSeq(resps, HttpCount(sent) + 1, Len(resps))

(***************************************************************************)
(* InfluxDBClient.write_points                                             *)
(***************************************************************************)
smu == <<"s", "m", "u">>
WritePointsLocals == {"self", "data", "batch_size", "time_precision",
                      "dataset", "points", "i", "batch", "url", "params"}
\* the value a module-level name is bound to
GlobalValue(n) == [g \in ModuleGlobals |-> g][n]

RECURSIVE write_points(_, _, _, _, _)
RECURSIVE batch_loop(_, _, _, _, _, _, _, _)

\* lines 123-133, about to run iteration c of the inner loop for dataset d,
\* having sent the messages in sent
batch_loop(obj, data, batch_size, tp, d, c, sent, resps) ==
    IF d > Len(data) THEN Return(obj, None, sent)
    ELSE
    LET dataset == data[d]
        points == dataset.points
    IN  IF ~NameDefined(WritePointsLocals, "xrange")
        THEN Raise(obj, NameError("xrange"), sent)
        ELSE
        LET starts == xrange(Len(points), batch_size[1])
        IN  IF c > Len(starts)
            THEN batch_loop(obj, data, batch_size, tp, d + 1, 1, sent, resps)
            ELSE IF ~NameDefined(WritePointsLocals, "n")
            THEN Raise(obj, NameError("n"), sent)
            ELSE
            LET i == starts[c]
                batch == << [name |-> dataset.name,
                             columns |-> dataset.columns,
                             points |-> slice(points, i, i + GlobalValue("n"))] >>
                r == write_points(obj, batch, None, tp, resps)
            IN  IF r.exc # NoExc
                THEN Raise(r.self, r.exc, sent \o r.sent)
                ELSE batch_loop(r.self, data, batch_size, tp, d, c + 1,
                                sent \o r.sent, Rest(resps, r.sent))

write_points(obj, data, batch_size, time_precision, resps) ==
    IF ~str_in(time_precision, smu)
    THEN Raise(obj, AssertionError, <<>>)
    ELSE IF Truthy(batch_size)
    THEN batch_loop(obj, data, batch_size, time_precision, 1, 1, <<>>, resps)
    ELSE IF ~hasattr(obj, "_database")
    THEN Raise(obj, AttributeError("_database"), <<>>)
    ELSE
    LET url == <<"db", obj["_database"], "series">>
        params == [time_precision |-> time_precision]
        r == IF obj.use_udp
             THEN send_packet(obj, data)
             ELSE request(obj, url, "POST", Some(params),
                          Some(Box("list", data)), 200, resps)
    IN  IF r.exc # NoExc THEN r ELSE Return(r.self, None, r.sent)

(***************************************************************************)
(* InfluxDBClient.query                                                    *)
(***************************************************************************)
query(obj, q, time_precision, chunked, resps) ==
    IF ~str_in(time_precision, smu)
    THEN Raise(obj, AssertionError, <<>>)
    ELSE IF ~hasattr(obj, "_database")
    THEN Raise(obj, AttributeError("_database"), <<>>)
    ELSE
    LET url == <<"db", obj["_database"], "series">>
        params == [q |-> q, time_precision |-> time_precision,
                   chunked |-> chunked]
        r == request(obj, url, "GET", Some(params), None, 200, resps)
    IN  IF r.exc # NoExc THEN r
        ELSE Return(r.self, Some(json_loads(r.ret[1].content)), r.sent)

(***************************************************************************)
(* Administrative methods.                                                 *)
(***************************************************************************)
\* a method that returns nothing: the request's exception, or None
Discard(r) == IF r.exc # NoExc THEN r ELSE Return(r.self, None, r.sent)
\* a method that returns the decoded body of the response
Decode(r) ==
    IF r.exc # NoExc THEN r
    ELSE Return(r.self, Some(json_loads(r.ret[1].content)), r.sent)

create_database(obj, database, resps) ==
    Discard(request(obj, <<"db">>, "POST", None,
                    Some(Box("dict", [name |-> database])), 201, resps))

delete_database(obj, database, resps) ==
    Discard(request(obj, <<"db", database>>, "DELETE", None, None, 204, resps))

get_database_list(obj, resps) ==
    Decode(request(obj, <<"db">>, "GET", None, None, 200, resps))

delete_series(obj, series, resps) ==
    IF ~hasattr(obj, "_database")
    THEN Raise(obj, AttributeError("_database"), <<>>)
    ELSE Discard(request(obj, <<"db", obj["_database"], "series", series>>,
                         "DELETE", None, None, 204, resps))

get_list_cluster_admins(obj, resps) ==
    Decode(request(obj, <<"cluster_admins">>, "GET", None, None, 200, resps))

add_cluster_admin(obj, new_username, new_password, resps) ==
    Discard(request(obj, <<"cluster_admins">>, "POST", None,
                    Some(Box("dict", [name |-> new_username,
                                      password |-> new_password])),
                    200, resps))

update_cluster_admin_password(obj, username, new_password, resps) ==
    Discard(request(obj, <<"cluster_admins", username>>, "POST", None,
                    Some(Box("dict", [password |-> new_password])),
                    200, resps))

delete_cluster_admin(obj, username, resps) ==
    Discard(request(obj, <<"cluster_admins", username>>, "DELETE", None, None,
                    204, resps))

alter_database_admin(obj, username, is_admin, resps) ==
    IF ~hasattr(obj, "_database")
    THEN Raise(obj, AttributeError("_database"), <<>>)
    ELSE Discard(request(obj, <<"db", obj["_database"], "users", username>>,
                         "POST", None, Some(Box("dict", [admin |-> is_admin])),
                         200, resps))

set_database_admin(obj, username, resps) ==
    alter_database_admin(obj, username, TRUE, resps)

unset_database_admin(obj, username, resps) ==
    alter_database_admin(obj, username, FALSE, resps)

get_database_users(obj, resps) ==
    IF ~hasattr(obj, "_database")
    THEN Raise(obj, AttributeError("_database"), <<>>)
    ELSE Decode(request(obj, <<"db", obj["_database"], "users">>, "GET", None,
                        None, 200, resps))

add_database_user(obj, new_username, new_password, resps) ==
    IF ~hasattr(obj, "_database")
    THEN Raise(obj, AttributeError("_database"), <<>>)
    ELSE Discard(request(obj, <<"db", obj["_database"], "users">>, "POST", None,
                         Some(Box("dict", [name |-> new_username,
                                           password |-> new_password])),
                         200, resps))

\* the same method, but storing the credentials it was given on the client
\* before it issues the request
update_database_user_password_rebinds(obj, username, new_password, resps) ==
    LET o == setattr(setattr(obj, "username", username),
                     "password", new_password)
    IN  IF ~hasattr(o, "_database")
        THEN Raise(o, AttributeError("_database"), <<>>)
        ELSE Discard(request(o, <<"db", o["_database"], "users", username>>,
                             "POST", None,
                             Some(Box("dict", [password |-> new_password])),
                             200, resps))

update_database_user_password(obj, username, new_password, resps) ==
    IF ~hasattr(obj, "_database")
    THEN Raise(obj, AttributeError("_database"), <<>>)
    ELSE
    LET r == request(obj, <<"db", obj["_database"], "users", username>>, "POST",
                     None, Some(Box("dict", [password |-> new_password])),
                     200, resps)
    IN  IF r.exc # NoExc THEN r
        ELSE IF ~hasattr(r.self, "_username")
        THEN Raise(r.self, AttributeError("_username"), r.sent)
        ELSE IF username = r.self["_username"]
        THEN Return(setattr(r.self, "_password", new_password), None, r.sent)
        ELSE Return(r.self, None, r.sent)

delete_database_user(obj, username, resps) ==
    IF ~hasattr(obj, "_database")
    THEN Raise(obj, AttributeError("_database"), <<>>)
    ELSE Discard(request(obj, <<"db", obj["_database"], "users", username>>,
                         "DELETE", None, None, 200, resps))

(***************************************************************************)
(* Inputs: what callers pass and what the server answers.                  *)
(***************************************************************************)
Usernames == {"root", "bob"}
NewPasswords == {"s3cret", "hunter2"}
Databases == {"db1", "db2"}
SeriesNames == <<"cpu", "mem">>
TimePrecisions == {<<"s">>, <<"m">>, <<"u">>, <<>>, <<"s", "m">>,
                   <<"s", "m", "u">>, <<"x">>}
StatusCodes == {200, 201, 204, 500}

\* dataset number k with n rows; rows are distinct across the datasets
Dataset(k, n) ==
    [name |-> SeriesNames[k], columns |-> <<"value">>,
     points |-> [j \in 1..n |-> <<10 * k + j>>]]
Data ==
    {<<>>} \cup {<<Dataset(1, n)>> : n \in 0..MaxRows}
           \cup {<<Dataset(1, n), Dataset(2, m)>> : n, m \in 0..MaxRows}
BatchSizes == {None} \cup {Some(b) : b \in 0..MaxBatch}

Reply(code) == [status_code |-> code, content |-> json_dumps(<<"body", code>>)]
OneReply == {<<Reply(c)>> : c \in StatusCodes}
\* replies to the requests of one write: the k-th is a 500, the others 200
WriteReplies ==
    {[i \in 1..(2 * MaxRows) |-> IF i = k THEN Reply(500) ELSE Reply(200)] :
        k \in 0..MaxFail}

CtorArgs ==
    [host : {"localhost"}, port : {8086}, username : {"root"},
     password : {"root"}, database : {"db1"}, ssl : BOOLEAN,
     verify_ssl : {FALSE}, timeout : {None}, use_udp : BOOLEAN,
     udp_port : {4444}]

(***************************************************************************)
(* The state machine: construction, then any sequence of method calls.     *)
(***************************************************************************)
Init ==
    /\ ctor \in CtorArgs
    /\ self = __init__(ctor)
    /\ net = <<>>
    /\ last = [op |-> "__init__", args |-> ctor, resps |-> <<>>,
               exc |-> NoExc, ret |-> None, sent |-> <<>>]

Call(op, args, resps, r) ==
    /\ self' = r.self
    /\ net' = net \o r.sent
    /\ last' = [op |-> op, args |-> args, resps |-> resps,
                exc |-> r.exc, ret |-> r.ret, sent |-> r.sent]
    /\ UNCHANGED ctor

\* the calls of write_points: every dataset collection, batch size and reply
\* pattern under a valid precision, and every precision on a fixed collection
WriteInputs ==
    [data : Data, batch_size : BatchSizes, time_precision : {<<"s">>},
     resps : WriteReplies]
    \cup
    [data : {<<Dataset(1, MaxRows)>>}, batch_size : {None, Some(MaxBatch)},
     time_precision : TimePrecisions, resps : WriteReplies]

WritePoints ==
    \E in \in WriteInputs :
        Call("write_points",
             [data |-> in.data, batch_size |-> in.batch_size,
              time_precision |-> in.time_precision],
             in.resps,
             write_points(self, in.data, in.batch_size, in.time_precision,
                          in.resps))

Query ==
    \E tp \in TimePrecisions, chunked \in BOOLEAN, resps \in OneReply :
        Call("query", [query |-> "select", time_precision |-> tp,
                       chunked |-> chunked],
             resps, query(self, "select", tp, chunked, resps))

Request ==
    \E params \in {None, Some([u |-> "eve"]), Some([p |-> "guess"]),
                   Some([q |-> "select"])},
       status_code \in {200, 204}, resps \in OneReply :
        Call("request", [url |-> <<"db">>, method |-> "GET", params |-> params,
                         data |-> None, status_code |-> status_code],
             resps, request(self, <<"db">>, "GET", params, None, status_code,
                            resps))

SendPacket ==
    \E data \in {<<Dataset(1, n)>> : n \in 0..1} :
        Call("send_packet", [packet |-> data], <<>>, send_packet(self, data))

CreateDatabase ==
    \E database \in Databases, resps \in OneReply :
        Call("create_database", [database |-> database], resps,
             create_database(self, database, resps))

DeleteDatabase ==
    \E database \in Databases, resps \in OneReply :
        Call("delete_database", [database |-> database], resps,
             delete_database(self, database, resps))

GetDatabaseList ==
    \E resps \in OneReply :
        Call("get_database_list", <<>>, resps, get_database_list(self, resps))

DeleteSeries ==
    \E series \in {"cpu", "mem"}, resps \in OneReply :
        Call("delete_series", [series |-> series], resps,
             delete_series(self, series, resps))

GetListClusterAdmins ==
    \E resps \in OneReply :
        Call("get_list_cluster_admins", <<>>, resps,
             get_list_cluster_admins(self, resps))

AddClusterAdmin ==
    \E u \in Usernames, p \in NewPasswords, resps \in OneReply :
        Call("add_cluster_admin", [new_username |-> u, new_password |-> p],
             resps, add_cluster_admin(self, u, p, resps))

UpdateClusterAdminPassword ==
    \E u \in Usernames, p \in NewPasswords, resps \in OneReply :
        Call("update_cluster_admin_password",
             [username |-> u, new_password |-> p],
             resps, update_cluster_admin_password(self, u, p, resps))

DeleteClusterAdmin ==
    \E u \in Usernames, resps \in OneReply :
        Call("delete_cluster_admin", [username |-> u], resps,
             delete_cluster_admin(self, u, resps))

SetDatabaseAdmin ==
    \E u \in Usernames, resps \in OneReply :
        Call("set_database_admin", [username |-> u], resps,
             set_database_admin(self, u, resps))

UnsetDatabaseAdmin ==
    \E u \in Usernames, resps \in OneReply :
        Call("unset_database_admin", [username |-> u], resps,
             unset_database_admin(self, u, resps))

AlterDatabaseAdmin ==
    \E u \in Usernames, is_admin \in BOOLEAN, resps \in OneReply :
        Call("alter_database_admin", [username |-> u, is_admin |-> is_admin],
             resps, alter_database_admin(self, u, is_admin, resps))

GetDatabaseUsers ==
    \E resps \in OneReply :
        Call("get_database_users", <<>>, resps, get_database_users(self, resps))

AddDatabaseUser ==
    \E u \in Usernames, p \in NewPasswords, resps \in OneReply :
        Call("add_database_user", [new_username |-> u, new_password |-> p],
             resps, add_database_user(self, u, p, resps))

UpdateDatabaseUserPassword ==
    \E u \in Usernames, p \in NewPasswords, resps \in OneReply :
        Call("update_database_user_password",
             [username |-> u, new_password |-> p],
             resps, update_database_user_password(self, u, p, resps))

DeleteDatabaseUser ==
    \E u \in Usernames, resps \in OneReply :
        Call("delete_database_user", [username |-> u], resps,
             delete_database_user(self, u, resps))

Next ==
    \/ WritePoints
    \/ Query
    \/ Request
    \/ SendPacket
    \/ CreateDatabase
    \/ DeleteDatabase
    \/ GetDatabaseList
    \/ DeleteSeries
    \/ GetListClusterAdmins
    \/ AddClusterAdmin
    \/ UpdateClusterAdminPassword
    \/ DeleteClusterAdmin
    \/ SetDatabaseAdmin
    \/ UnsetDatabaseAdmin
    \/ AlterDatabaseAdmin
    \/ GetDatabaseUsers
    \/ AddDatabaseUser
    \/ UpdateDatabaseUserPassword
    \/ DeleteDatabaseUser

Spec == Init /\ [][Next]_vars

(***************************************************************************)
(* Vocabulary of the properties.                                           *)
(***************************************************************************)
ValidPrecisions == {<<"s">>, <<"m">>, <<"u">>}
ConfigFields == {"host", "port", "username", "database", "scheme",
                 "verify_ssl", "timeout", "use_udp", "udp_port"}
PasswordChangeOps == {"update_database_user_password"}
\* the password attributes of the object, under either name
StoredPassword(obj) ==
    [a \in {"password", "_password"} \cap DOMAIN obj |-> obj[a]]

\* the dataset list a write message carries
Payload(m) ==
    IF m.kind = "HTTP" THEN m.data[1].value.json ELSE m.data.value.json
Payloads(sent) == [i \in DOMAIN sent |-> Payload(sent[i])]
Kinds(sent) == {sent[i].kind : i \in DOMAIN sent}
Transport(obj) == IF obj.use_udp THEN "UDP" ELSE "HTTP"

\* the rows carried for the dataset called name, in the order sent
RECURSIVE RowsSent(_, _)
RowsSent(sent, name) ==
    IF sent = <<>> THEN <<>>
    ELSE (IF Payload(Head(sent))[1].name = name
          THEN Payload(Head(sent))[1].points ELSE <<>>)
         \o RowsSent(Tail(sent), name)

\* the batches the write path is specified to issue for data and batch size b
NumChunks(n, b) == (n + b - 1) \div b
ChunksOf(ds, b) ==
    [k \in 1..NumChunks(Len(ds.points), b) |->
        << [name |-> ds.name, columns |-> ds.columns,
            points |-> SubSeq(ds.points, (k - 1) * b + 1,
                              IF k * b < Len(ds.points) THEN k * b
                              ELSE Len(ds.points))] >>]
RECURSIVE ExpectedBatches(_, _)
ExpectedBatches(data, b) ==
    IF data = <<>> THEN <<>>
    ELSE ChunksOf(Head(data), b) \o ExpectedBatches(Tail(data), b)

AllAccepted(resps) == \A i \in DOMAIN resps : resps[i].status_code = 200
\* index of the first reply that is not a 200, 0 if there is none
FirstFail(resps) ==
    IF AllAccepted(resps) THEN 0
    ELSE CHOOSE i \in DOMAIN resps :
            /\ resps[i].status_code # 200
            /\ \A j \in 1..(i - 1) : resps[j].status_code = 200

BatchedWrite ==
    /\ last.op = "write_points"
    /\ Truthy(last.args.batch_size)
    /\ last.args.time_precision \in ValidPrecisions
PlainWrite ==
    /\ last.op = "write_points"
    /\ last.args.batch_size = None
    /\ last.args.time_precision \in ValidPrecisions

\* the status code expected by each method whose first step is its request
ExpectedStatus ==
    [o \in {"create_database"} |-> 201] @@
    [o \in {"delete_database", "delete_cluster_admin"} |-> 204] @@
    [o \in {"get_database_list", "get_list_cluster_admins", "add_cluster_admin",
            "update_cluster_admin_password"} |-> 200]

(***************************************************************************)
(* C1: a batched write whose every chunk the server accepts has sent, for  *)
(* each dataset longer than the batch size, chunks whose rows concatenated *)
(* in sending order are the dataset's rows, each chunk under the dataset's *)
(* name and columns.                                                       *)
(***************************************************************************)
C1_ChunksConcatenateToRows ==
    (BatchedWrite /\ AllAccepted(last.resps)) =>
        \A d \in DOMAIN last.args.data :
            LET ds == last.args.data[d] IN
            last.args.batch_size[1] < Len(ds.points) =>
                /\ RowsSent(last.sent, ds.name) = ds.points
                /\ \A i \in DOMAIN last.sent :
                       Payload(last.sent[i])[1].name = ds.name =>
                           Payload(last.sent[i])[1].columns = ds.columns

(***************************************************************************)
(* C2: write_points and query reject (by the precision assertion) every    *)
(* time_precision outside {"s", "m", "u"}, and send nothing in that call.  *)
(***************************************************************************)
C2_PrecisionOutsideSetRejected ==
    (/\ last.op \in {"write_points", "query"}
     /\ last.args.time_precision \notin ValidPrecisions) =>
        /\ last.exc = AssertionError
        /\ last.sent = <<>>

(***************************************************************************)
(* C3: a call that goes through request() ends in InfluxDBClientError with *)
(* the reply's status code and body when the status differs from the       *)
(* expected one, and otherwise raises nothing; request() itself then       *)
(* returns the raw response.                                               *)
(***************************************************************************)
C3_StatusMapsToOutcome ==
    /\ last.op = "request" =>
          LET resp == last.resps[1] IN
          IF resp.status_code # last.args.status_code
          THEN last.exc = InfluxDBClientError(resp.content, resp.status_code)
          ELSE last.exc = NoExc /\ last.ret = Some(resp)
    /\ last.op \in DOMAIN ExpectedStatus =>
          LET resp == last.resps[1] IN
          IF resp.status_code # ExpectedStatus[last.op]
          THEN last.exc = InfluxDBClientError(resp.content, resp.status_code)
          ELSE last.exc = NoExc

C5_RequestCarriesAuth ==
    last.op = "request" =>
        /\ Len(last.sent) = 1
        /\ last.sent[1].kind = "HTTP"
        /\ last.sent[1].params.u = ctor.username
        /\ last.sent[1].params.p = ctor.password
        /\ last.args.params # None =>
              \A k \in (DOMAIN last.args.params[1]) \ {"u", "p"} :
                  last.sent[1].params[k] = last.args.params[1][k]

(***************************************************************************)
(* C6: no method call changes host, port, username, database, scheme,      *)
(* verify_ssl, timeout, use_udp or udp_port; the stored password changes   *)
(* only in a password-change call.                                         *)
(***************************************************************************)
C6_ConfigImmutable ==
    [][ /\ \A f \in ConfigFields : f \in DOMAIN self' /\ self'[f] = self[f]
        /\ StoredPassword(self') # StoredPassword(self) =>
              last'.op \in PasswordChangeOps ]_vars

C6_Witness ==
    /\ last.op = "update_database_user_password"
    /\ last.args.username = ctor.username
    /\ last.args.new_password # ctor.password
    /\ last.resps[1].status_code = 200
    /\ \A f \in ConfigFields : self[f] = __init__(ctor)[f]

(***************************************************************************)
(* C7: a batched write whose every chunk the server accepts has issued     *)
(* exactly the batches of the specification: per dataset of L rows,        *)
(* ceil(L/b) single-dataset write calls of b rows each (the last of the    *)
(* remaining rows), in dataset order then row order.                       *)
(***************************************************************************)
C7_ChunksOfBatchSize ==
    (BatchedWrite /\ AllAccepted(last.resps)) =>
        Payloads(last.sent) =
            ExpectedBatches(last.args.data, last.args.batch_size[1])

(***************************************************************************)
(* C8: an unbatched write with a valid precision on an HTTP client issues  *)
(* exactly one POST to db/{database}/series carrying the whole dataset     *)
(* collection, with the caller's time_precision, and succeeds on a 200.    *)
(***************************************************************************)
C8_UnbatchedWriteIsOnePost ==
    (PlainWrite /\ ~self.use_udp) =>
        /\ Len(last.sent) = 1
        /\ last.sent[1].kind = "HTTP"
        /\ last.sent[1].method = "POST"
        /\ last.sent[1].url[2] = <<"db", ctor.database, "series">>
        /\ Payload(last.sent[1]) = last.args.data
        /\ last.sent[1].params.time_precision = last.args.time_precision
        /\ last.resps[1].status_code = 200 => last.exc = NoExc

(***************************************************************************)
(* C9: update_database_user_password sends its request with the old        *)
(* password; when the reply is a 200 and the username is the configured    *)
(* one, the password later requests carry is new_password; otherwise it    *)
(* is the old one.                                                         *)
(***************************************************************************)
C9_CredentialRotation ==
    last.op = "update_database_user_password" =>
        /\ Len(last.sent) = 1
        /\ last.sent[1].params.p = ctor.password
        /\ hasattr(self, "_password")
        /\ IF /\ last.resps[1].status_code = 200
              /\ last.args.username = ctor.username
           THEN self["_password"] = last.args.new_password
           ELSE self["_password"] = ctor.password

=============================================================================
